---- MODULE Spec2Model ----
(***************************************************************************)
(* The node event generator (lib/util/node-event-generator.js) and the     *)
(* selector grammar it parses its patterns with                            *)
(* (lib/query-selectors/grammar.pegjs).                                    *)
(*                                                                         *)
(* A pattern string is a sequence of lexemes: every punctuation character  *)
(* of the grammar is one lexeme, a maximal run of identifierName           *)
(* characters is one lexeme, and the exit marker ":exit" is one lexeme.    *)
(* A selector object is identified by its position: <<i>> is the i-th key  *)
(* of parsedQueryMap, <<i, 1>> its left/first member, and so on, since     *)
(* every parse builds fresh objects and the caches are keyed by identity.  *)
(***************************************************************************)
EXTENDS Integers, Sequences, FiniteSets, TLC

\* Bounds of the model.
MaxNodes == 3
MaxTraversals == 2
MaxDepth == 4

VARIABLES
    nodes,                    \* the tree: nodes[n] = [type, parent, key, props]
    parsedQueryMap,           \* this.parsedQueryMap, in insertion order
    typeSpecificSelectorMap,  \* this.typeSpecificSelectorMap
    generalSelectors,         \* this.generalSelectors
    matchResultCache,         \* module-level WeakMap of WeakMaps
    ancestorMatchCache,       \* module-level WeakMap of WeakMaps
    call,                     \* the last enterNode/leaveNode call and how it ended
    emitted,                  \* emitter.emit(name, node) calls made by that call
    log,                      \* matcher calls made by that call
    traversal                 \* number of the tree walk in progress

vars == <<nodes, parsedQueryMap, typeSpecificSelectorMap, generalSelectors,
          matchResultCache, ancestorMatchCache, call, emitted, log, traversal>>

-----------------------------------------------------------------------------
(* Lexemes *)

EOF == "<eof>"
EXIT == ":exit"

\* Characters that identifierName excludes ([^ [\],():#!=><~+.]), the exit
\* marker (it contains ':') and the end of input.
Excluded == {" ", "[", "]", ",", "(", ")", ":", "#", "!", "=", ">", "<", "~", "+", ".",
             "\"", "'", "/", EXIT, EOF}

Tok(s, i) == IF i >= 1 /\ i <= Len(s) THEN s[i] ELSE EOF

isIdentifierName(t) == t \notin Excluded

\* [0-9]+ lexemes and their parseFloat value.
Digits == {"0", "1", "2", "3"}
parseFloat(t) == CASE t = "0" -> 0 [] t = "1" -> 1 [] t = "2" -> 2 [] t = "3" -> 3

-----------------------------------------------------------------------------
(* grammar.pegjs *)

NoAst == [type |-> "undefined"]
Ok(ast, next) == [ok |-> TRUE, ast |-> ast, next |-> next]
Fail(i) == [ok |-> FALSE, ast |-> NoAst, next |-> i]

\* e1 / e2 : the first alternative that succeeds.
orElse(r, alt) == IF r.ok THEN r ELSE alt

\* _ = " "*
RECURSIVE ws(_, _)
ws(s, i) == IF Tok(s, i) = " " THEN ws(s, i + 1) ELSE i

\* attrName = (identifierName / ".")+ : the position after the name.
RECURSIVE attrNameEnd(_, _)
attrNameEnd(s, i) ==
    IF isIdentifierName(Tok(s, i)) \/ Tok(s, i) = "." THEN attrNameEnd(s, i + 1) ELSE i

\* An optional expression that matches nothing yields "" in the parsers that
\* PEG.js generates up to 0.7 and null in those of the later versions.
Unmatched == {"", "null"}

\* a + '=' : null + '=' is "null=".
plusEquals(a) == CASE a = "!" -> "!=" [] a = "null" -> "null=" [] OTHER -> "="

\* attrEqOps = a:"!"? "=" { return a + '='; } ; u is the value of an unmatched
\* optional expression.
attrEqOps(s, i, u) ==
    IF Tok(s, i) = "!" /\ Tok(s, i + 1) = "="
    THEN [ok |-> TRUE, op |-> plusEquals("!"), next |-> i + 2]
    ELSE IF Tok(s, i) = "=" THEN [ok |-> TRUE, op |-> plusEquals(u), next |-> i + 1]
    ELSE [ok |-> FALSE, op |-> "", next |-> i]

\* attrOps = a:[><!]? "=" { return (a || '') + '='; } / [><]
attrOps(s, i) ==
    IF Tok(s, i) \in {">", "<", "!"} /\ Tok(s, i + 1) = "="
    THEN [ok |-> TRUE, op |-> IF Tok(s, i) = ">" THEN ">=" ELSE IF Tok(s, i) = "<" THEN "<=" ELSE "!=",
          next |-> i + 2]
    ELSE IF Tok(s, i) = "=" THEN [ok |-> TRUE, op |-> "=", next |-> i + 1]
    ELSE IF Tok(s, i) \in {">", "<"} THEN [ok |-> TRUE, op |-> Tok(s, i), next |-> i + 1]
    ELSE [ok |-> FALSE, op |-> "", next |-> i]

\* type = "type(" _ [^ )]+ _ ")"
type(s, i) ==
    LET name(j) ==
            LET close(k) ==
                    IF isIdentifierName(Tok(s, j)) /\ Tok(s, k) = ")"
                    THEN Ok([type |-> "type", value |-> Tok(s, j)], k + 1) ELSE Fail(i)
            IN  close(ws(s, j + 1))
    IN  IF Tok(s, i) = "type" /\ Tok(s, i + 1) = "(" THEN name(ws(s, i + 2)) ELSE Fail(i)

\* regex = "/" [^/]+ "/"
regex(s, i) ==
    IF Tok(s, i) = "/" /\ isIdentifierName(Tok(s, i + 1)) /\ Tok(s, i + 2) = "/"
    THEN Ok([type |-> "regexp", value |-> Tok(s, i + 1)], i + 3)
    ELSE Fail(i)

\* string: a quoted word
string(s, i) ==
    IF Tok(s, i) \in {"\"", "'"} /\ Tok(s, i + 2) = Tok(s, i) /\ Tok(s, i + 1) \notin {"\"", "'", EOF}
    THEN Ok([type |-> "literal", kind |-> "string", value |-> Tok(s, i + 1)], i + 3)
    ELSE Fail(i)

\* number = ([0-9]* ".")? [0-9]+
number(s, i) ==
    IF Tok(s, i) \in Digits
    THEN Ok([type |-> "literal", kind |-> "number", value |-> parseFloat(Tok(s, i))], i + 1)
    ELSE Fail(i)

\* path = identifierName
path(s, i) ==
    IF isIdentifierName(Tok(s, i))
    THEN Ok([type |-> "literal", kind |-> "string", value |-> Tok(s, i)], i + 1)
    ELSE Fail(i)

\* attrValue, from position i just after "[" _ ; e is the end of attrName.
attrValue(s, i, u) ==
    LET attribute(e, op, v) ==
            Ok([type |-> "attribute", name |-> SubSeq(s, i, e - 1), operator |-> op.op,
                value |-> v.ast], v.next)
        bare(e) ==
            Ok([type |-> "attribute", name |-> SubSeq(s, i, e - 1), operator |-> "",
                value |-> NoAst], e)
        third(e, r) == IF r.ok THEN r ELSE bare(e)
        relValue(e, op, v) == IF op.ok /\ v.ok THEN attribute(e, op, v) ELSE Fail(i)
        rel(e, op) ==
            relValue(e, op, orElse(string(s, ws(s, op.next)),
                                   orElse(number(s, ws(s, op.next)), path(s, ws(s, op.next)))))
        second(e, r) == IF r.ok THEN r ELSE third(e, rel(e, attrOps(s, ws(s, e))))
        eqValue(e, eq, v) == IF eq.ok /\ v.ok THEN attribute(e, eq, v) ELSE Fail(i)
        eql(e, eq) == eqValue(e, eq, orElse(type(s, ws(s, eq.next)), regex(s, ws(s, eq.next))))
        first(e) == IF e = i THEN Fail(i) ELSE second(e, eql(e, attrEqOps(s, ws(s, e), u)))
    IN  first(attrNameEnd(s, i))

\* attr = "[" _ attrValue _ "]"
attr(s, i, u) ==
    LET close(v) ==
            IF v.ok /\ Tok(s, ws(s, v.next)) = "]" THEN Ok(v.ast, ws(s, v.next) + 1) ELSE Fail(i)
    IN  IF Tok(s, i) = "[" THEN close(attrValue(s, ws(s, i + 1), u)) ELSE Fail(i)

\* field = "." identifierName ("." identifierName)* : the position after it.
RECURSIVE fieldEnd(_, _)
fieldEnd(s, i) ==
    IF Tok(s, i) = "." /\ isIdentifierName(Tok(s, i + 1)) THEN fieldEnd(s, i + 2) ELSE i

field(s, i) ==
    LET name(e) == IF e > i THEN Ok([type |-> "field", name |-> SubSeq(s, i + 1, e - 1)], e)
                   ELSE Fail(i)
    IN  name(fieldEnd(s, i))

wildcard(s, i) ==
    IF Tok(s, i) = "*" THEN Ok([type |-> "wildcard", value |-> "*"], i + 1) ELSE Fail(i)

\* identifier = "#"? identifierName
identifier(s, i) ==
    LET name(j) == IF isIdentifierName(Tok(s, j))
                   THEN Ok([type |-> "identifier", value |-> Tok(s, j)], j + 1)
                   ELSE Fail(i)
    IN  name(IF Tok(s, i) = "#" THEN i + 1 ELSE i)

\* atom = wildcard / identifier / attr / field
atom(s, i, u) ==
    orElse(wildcard(s, i), orElse(identifier(s, i), orElse(attr(s, i, u), field(s, i))))

\* atom+ : the atoms from position i on, and the position after them.
RECURSIVE atoms(_, _, _)
atoms(s, i, u) ==
    LET more(a, rest) == [list |-> <<a.ast>> \o rest.list, next |-> rest.next]
        one(a) == IF ~a.ok THEN [list |-> <<>>, next |-> i] ELSE more(a, atoms(s, a.next, u))
    IN  one(atom(s, i, u))

\* sequence = "!"? atom+ ; the subject flag is not read by the event generator.
sequence(s, i, u) ==
    LET build(as) ==
            IF Len(as.list) = 0 THEN Fail(i)
            ELSE IF Len(as.list) = 1 THEN Ok(as.list[1], as.next)
            ELSE Ok([type |-> "compound", selectors |-> as.list], as.next)
    IN  build(atoms(s, IF Tok(s, i) = "!" THEN i + 1 ELSE i, u))

\* binaryOp = _ ">" _ / " " _
binaryOp(s, i) ==
    IF Tok(s, ws(s, i)) = ">" THEN [ok |-> TRUE, op |-> "child", next |-> ws(s, ws(s, i) + 1)]
    ELSE IF Tok(s, i) = " " THEN [ok |-> TRUE, op |-> "descendant", next |-> ws(s, i + 1)]
    ELSE [ok |-> FALSE, op |-> "", next |-> i]

\* (binaryOp sequence)* folded to the left onto memo.
RECURSIVE selectorOps(_, _, _, _)
selectorOps(s, i, memo, u) ==
    LET rhs(b, r) ==
            IF b.ok /\ r.ok
            THEN selectorOps(s, r.next, [type |-> b.op, left |-> memo, right |-> r.ast], u)
            ELSE Ok(memo, i)
        op(b) == rhs(b, sequence(s, b.next, u))
    IN  op(binaryOp(s, i))

\* selector = sequence (binaryOp sequence)*
selector(s, i, u) ==
    LET ops(a) == IF a.ok THEN selectorOps(s, a.next, a.ast, u) ELSE Fail(i)
    IN  ops(sequence(s, i, u))

\* (_ "," _ selector)*
RECURSIVE selectorsTail(_, _, _)
selectorsTail(s, i, u) ==
    LET more(r, rest) == [list |-> <<r.ast>> \o rest.list, next |-> rest.next]
        one(c, r) == IF Tok(s, c) = "," /\ r.ok THEN more(r, selectorsTail(s, r.next, u))
                     ELSE [list |-> <<>>, next |-> i]
        comma(c) == one(c, selector(s, ws(s, c + 1), u))
    IN  comma(ws(s, i))

\* selectors = selector (_ "," _ selector)*
selectors(s, i, u) ==
    LET more(a, rest) == [ok |-> TRUE, list |-> <<a.ast>> \o rest.list, next |-> rest.next]
        one(a) == IF a.ok THEN more(a, selectorsTail(s, a.next, u))
                  ELSE [ok |-> FALSE, list |-> <<>>, next |-> i]
    IN  one(selector(s, i, u))

\* start = _ selectors _ / _ ; anything left over is a SyntaxError.
start(s, u) ==
    LET result(ss) ==
            IF ss.ok /\ ws(s, ss.next) = Len(s) + 1
            THEN Ok(IF Len(ss.list) = 1 THEN ss.list[1]
                    ELSE [type |-> "matches", selectors |-> ss.list], Len(s) + 1)
            ELSE IF ws(s, 1) = Len(s) + 1 THEN Ok(NoAst, Len(s) + 1)
            ELSE Fail(1)
    IN  result(selectors(s, ws(s, 1), u))

\* The parse function of the parser generated from the grammar.
parseSelector(s, u) == start(s, u)

-----------------------------------------------------------------------------
(* Values of node properties and lodash.get *)

Undefined == [t |-> "undefined", n |-> 0, s |-> ""]
Bool(b) == [t |-> "boolean", n |-> IF b THEN 1 ELSE 0, s |-> ""]
Num(k) == [t |-> "number", n |-> k, s |-> ""]
Str(x) == [t |-> "string", n |-> 0, s |-> x]
Obj(n) == [t |-> "object", n |-> n, s |-> ""]

\* !!v
truthy(v) ==
    CASE v.t = "undefined" -> FALSE
      [] v.t = "boolean" -> v.n = 1
      [] v.t = "number" -> v.n # 0
      [] v.t = "string" -> v.s # ""
      [] v.t = "object" -> TRUE

NodeIds == 1..MaxNodes
NoNode == 0

\* Own property seg of node n: its type tag, its parent link, a data property,
\* or the child held directly in the field seg.
property(n, seg) ==
    IF seg = "type" THEN Str(nodes[n].type)
    ELSE IF seg = "parent"
    THEN (IF nodes[n].parent = NoNode THEN Undefined ELSE Obj(nodes[n].parent))
    ELSE IF seg \in DOMAIN nodes[n].props THEN nodes[n].props[seg]
    ELSE IF \E c \in DOMAIN nodes : nodes[c].parent = n /\ nodes[c].key = seg
    THEN Obj(CHOOSE c \in DOMAIN nodes : nodes[c].parent = n /\ nodes[c].key = seg)
    ELSE Undefined

\* "a.b".split(".") on the lexemes of a dotted name.
RECURSIVE split(_)
split(name) ==
    IF name = <<>> THEN <<>>
    ELSE IF Head(name) = "." THEN split(Tail(name))
    ELSE <<Head(name)>> \o split(Tail(name))

\* The segments in the order they are written.
asWritten(q) == q

RECURSIVE reverse(_)
reverse(q) == IF q = <<>> THEN <<>> ELSE reverse(Tail(q)) \o <<Head(q)>>

\* lodash.get(object, path): undefined as soon as a segment is missing.
RECURSIVE baseGet(_, _)
baseGet(v, segs) ==
    IF segs = <<>> THEN v
    ELSE IF v.t # "object" THEN Undefined
    ELSE baseGet(property(v.n, Head(segs)), Tail(segs))

get(node, name) ==
    IF node = NoNode THEN Undefined ELSE baseGet(Obj(node), split(name))

-----------------------------------------------------------------------------
(* getNodeTypesHint *)

Null == [null |-> TRUE, types |-> <<>>]
Array(q) == [null |-> FALSE, types |-> q]

InSeq(x, q) == \E i \in 1..Len(q) : q[i] = x

\* The elements of q, without repetition, in the order of their first occurrence.
RECURSIVE uniq(_, _)
uniq(q, seen) ==
    IF q = <<>> THEN seen
    ELSE uniq(Tail(q), IF InSeq(Head(q), seen) THEN seen ELSE Append(seen, Head(q)))

\* The elements of q that every array of arrays holds.
RECURSIVE keepInAll(_, _)
keepInAll(q, arrays) ==
    IF q = <<>> THEN <<>>
    ELSE (IF \A k \in 1..Len(arrays) : InSeq(Head(q), arrays[k]) THEN <<Head(q)>> ELSE <<>>)
         \o keepInAll(Tail(q), arrays)

\* lodash.intersection.apply(null, arrays): [] for no array at all.
lodashIntersection(arrays) ==
    IF arrays = <<>> THEN <<>>
    ELSE keepInAll(uniq(Head(arrays), <<>>), Tail(arrays))

\* lodash.union.apply(null, hints): arguments that are not arrays are skipped.
RECURSIVE flattenArrays(_)
flattenArrays(hints) ==
    IF hints = <<>> THEN <<>>
    ELSE (IF Head(hints).null THEN <<>> ELSE Head(hints).types) \o flattenArrays(Tail(hints))

\* The arrays one after the other, with their repetitions.
concatenated(hints) == flattenArrays(hints)

lodashUnion(hints) == uniq(flattenArrays(hints), <<>>)

\* hints.filter(Boolean), as the arrays left.
RECURSIVE filterBoolean(_)
filterBoolean(hints) ==
    IF hints = <<>> THEN <<>>
    ELSE (IF Head(hints).null THEN <<>> ELSE <<Head(hints).types>>) \o filterBoolean(Tail(hints))

RECURSIVE getNodeTypesHint(_)
getNodeTypesHint(sel) ==
    CASE sel.type = "identifier" -> Array(<<sel.value>>)
      [] sel.type \in {"child", "descendant"} -> getNodeTypesHint(sel.right)
      [] sel.type = "compound" ->
            Array(lodashIntersection(filterBoolean(
                [i \in 1..Len(sel.selectors) |-> getNodeTypesHint(sel.selectors[i])])))
      [] sel.type = "matches" ->
            Array(lodashUnion(
                [i \in 1..Len(sel.selectors) |-> getNodeTypesHint(sel.selectors[i])]))
      [] OTHER -> Null

-----------------------------------------------------------------------------
(* NodeEventGenerator: constructor *)

\* selectorString.replace(/:exit$/, "")
stripExit(str) ==
    IF Len(str) > 0 /\ str[Len(str)] = EXIT THEN SubSeq(str, 1, Len(str) - 1) ELSE str

\* selectorString.endsWith(":exit")
endsWithExit(str) == Len(str) > 0 /\ str[Len(str)] = EXIT

\* this.parsedQueryMap after the first loop of the constructor.
buildParsedQueryMap(strings, u) ==
    [i \in 1..Len(strings) |->
        [selector |-> parseSelector(stripExit(strings[i]), u).ast, selectorString |-> strings[i]]]

\* typesToCheck.forEach(nodeType => ... push(selector)) for the selector at key i:
\* one push for every element of typesToCheck.
RECURSIVE pushAll(_, _, _)
pushAll(tmap, types, i) ==
    IF types = <<>> THEN tmap
    ELSE pushAll([t \in DOMAIN tmap \cup {Head(types)} |->
                     (IF t \in DOMAIN tmap THEN tmap[t] ELSE <<>>)
                     \o (IF t = Head(types) THEN <<(<<i>>)>> ELSE <<>>)],
                 Tail(types), i)

\* The second loop of the constructor over the keys from position i on.
RECURSIVE partition(_, _, _, _)
partition(pqm, i, tmap, general) ==
    LET place(typesToCheck) ==
            IF ~typesToCheck.null
            THEN partition(pqm, i + 1, pushAll(tmap, typesToCheck.types, i), general)
            ELSE partition(pqm, i + 1, tmap, Append(general, <<i>>))
    IN  IF i > Len(pqm) THEN [typeSpecificSelectorMap |-> tmap, generalSelectors |-> general]
        ELSE place(getNodeTypesHint(pqm[i].selector))

EmptyMap == [x \in {} |-> <<>>]

-----------------------------------------------------------------------------
(* Matcher.  Every function takes the caches and the call log c and returns *)
(* [threw, val, c]: whether it threw, the boolean it returned otherwise,    *)
(* and the caches and log it leaves behind.                                 *)

Ret(v, c) == [threw |-> FALSE, val |-> v, c |-> c]
Throw(c) == [threw |-> TRUE, val |-> FALSE, c |-> c]

EmptyWeakMap == [x \in {} |-> FALSE]
EmptyCache == [x \in {} |-> EmptyWeakMap]

\* map.set(key, value)
set(map, key, value) == [x \in DOMAIN map \cup {key} |-> IF x = key THEN value ELSE map[x]]

\* The selector object at position sel.
RECURSIVE subSelector(_, _)
subSelector(ast, steps) ==
    IF steps = <<>> THEN ast
    ELSE IF ast.type \in {"child", "descendant"}
    THEN subSelector(IF Head(steps) = 1 THEN ast.left ELSE ast.right, Tail(steps))
    ELSE subSelector(ast.selectors[Head(steps)], Tail(steps))

selectorAt(sel) == subSelector(parsedQueryMap[Head(sel)].selector, Tail(sel))

logged(fn, sel, node, r) ==
    [r EXCEPT !.c.log = Append(@, [fn |-> fn, sel |-> sel, node |-> node,
        result |-> IF r.threw THEN "throw" ELSE IF r.val THEN "true" ELSE "false"])]

\* String(value), for RegExp.prototype.test
toString(v) ==
    CASE v.t = "undefined" -> "undefined"
      [] v.t = "boolean" -> (IF v.n = 1 THEN "true" ELSE "false")
      [] v.t = "number" -> (CASE v.n = 0 -> "0" [] v.n = 1 -> "1" [] v.n = 2 -> "2" [] OTHER -> "3")
      [] v.t = "string" -> v.s
      [] v.t = "object" -> "[object Object]"

\* The regular expressions of the model are single words; a word matches the
\* strings that contain it.
contains(str, word) ==
    \/ str = word
    \/ str = "undefined" /\ word \in {"un", "defined"}
    \/ str = "[object Object]" /\ word \in {"object", "Object"}

regexpTest(re, v) == contains(toString(v), re)

\* The literal of an attribute selector as a value.
literal(value) ==
    IF value.type = "literal" /\ value.kind = "number" THEN Num(value.value) ELSE Str(value.value)

\* a === b
strictEquals(a, b) == a = b

\* ToNumber: nan for undefined, objects and words.
toNumber(v) ==
    CASE v.t = "number" -> [nan |-> FALSE, n |-> v.n]
      [] v.t = "boolean" -> [nan |-> FALSE, n |-> v.n]
      [] v.t = "string" /\ v.s \in Digits -> [nan |-> FALSE, n |-> parseFloat(v.s)]
      [] v.t = "string" /\ v.s = "" -> [nan |-> FALSE, n |-> 0]
      [] OTHER -> [nan |-> TRUE, n |-> 0]

\* Code-unit order of the words of the model.
Lexicon == <<"0", "1", "2", "3", "A", "B", "C", "[object Object]", "false", "true", "undefined">>
lexIndex(x) == IF InSeq(x, Lexicon) THEN CHOOSE i \in 1..Len(Lexicon) : Lexicon[i] = x ELSE 0

\* A comparison that also holds of equal numbers.
atMost(a, b) == ~toNumber(a).nan /\ ~toNumber(b).nan /\ toNumber(a).n <= toNumber(b).n

\* a < b : two strings compare by code units, anything else as numbers.
lessThan(a, b) ==
    IF a.t \in {"string", "object"} /\ b.t \in {"string", "object"}
    THEN lexIndex(toString(a)) < lexIndex(toString(b))
    ELSE ~toNumber(a).nan /\ ~toNumber(b).nan /\ toNumber(a).n < toNumber(b).n

\* a <= b
lessOrEqual(a, b) ==
    IF a.t \in {"string", "object"} /\ b.t \in {"string", "object"}
    THEN lexIndex(toString(a)) <= lexIndex(toString(b))
    ELSE ~toNumber(a).nan /\ ~toNumber(b).nan /\ toNumber(a).n <= toNumber(b).n

\* case "attribute"
attribute(s, propValue) ==
    IF s.operator = "" THEN [threw |-> FALSE, val |-> truthy(propValue)]
    ELSE IF s.value.type = "regexp"
    THEN [threw |-> FALSE, val |-> regexpTest(s.value.value, propValue)]
    ELSE CASE s.operator = "=" -> [threw |-> FALSE, val |-> strictEquals(propValue, literal(s.value))]
           [] s.operator = "!=" -> [threw |-> FALSE, val |-> ~strictEquals(propValue, literal(s.value))]
           [] s.operator = "<" -> [threw |-> FALSE, val |-> lessThan(propValue, literal(s.value))]
           [] s.operator = "<=" -> [threw |-> FALSE, val |-> lessOrEqual(propValue, literal(s.value))]
           [] s.operator = ">" -> [threw |-> FALSE, val |-> lessThan(literal(s.value), propValue)]
           [] s.operator = ">=" -> [threw |-> FALSE, val |-> lessOrEqual(literal(s.value), propValue)]
           [] OTHER -> [threw |-> TRUE, val |-> FALSE]

\* The loop of case "field": currentAncestor and the fields still to check.
RECURSIVE fieldWalk(_, _)
fieldWalk(currentAncestor, fields) ==
    IF fields = <<>> THEN TRUE
    ELSE IF nodes[currentAncestor].parent = NoNode
            \/ Obj(currentAncestor) # property(nodes[currentAncestor].parent, Head(fields))
    THEN FALSE
    ELSE fieldWalk(nodes[currentAncestor].parent, Tail(fields))

RECURSIVE checkMatch(_, _, _)
RECURSIVE checkMatchWithAnyAncestor(_, _, _)
RECURSIVE checkMatchWithoutCache(_, _, _)
RECURSIVE every(_, _, _, _, _)
RECURSIVE some(_, _, _, _, _)

\* A test of the last member alone.
lastMember(c, sel, i, n, node) == checkMatch(c, Append(sel, n), node)

\* selector.selectors.every(child => checkMatch(child, node)), from member i of n on.
every(c, sel, i, n, node) ==
    LET then(r) == IF r.threw \/ ~r.val THEN r ELSE every(r.c, sel, i + 1, n, node)
    IN  IF i > n THEN Ret(TRUE, c) ELSE then(checkMatch(c, Append(sel, i), node))

\* A test of the first member alone.
firstMember(c, sel, i, n, node) ==
    IF i > n THEN Ret(FALSE, c) ELSE checkMatch(c, Append(sel, 1), node)

\* selector.selectors.some(child => checkMatch(child, node)), from member i of n on.
some(c, sel, i, n, node) ==
    LET then(r) == IF r.threw \/ r.val THEN r ELSE some(r.c, sel, i + 1, n, node)
    IN  IF i > n THEN Ret(FALSE, c) ELSE then(checkMatch(c, Append(sel, i), node))

checkMatchWithoutCache(c, sel, node) ==
    LET withC(r) == [threw |-> r.threw, val |-> r.val, c |-> c]
        child(r) ==
            IF r.threw \/ ~r.val THEN r ELSE checkMatch(r.c, Append(sel, 1), nodes[node].parent)
        descendant(r) ==
            IF r.threw \/ ~r.val THEN r ELSE checkMatchWithAnyAncestor(r.c, Append(sel, 1), node)
        switch(s) ==
            CASE s.type = "identifier" ->
                    IF node = NoNode THEN Throw(c) ELSE Ret(nodes[node].type = s.value, c)
              [] s.type = "attribute" -> withC(attribute(s, get(node, s.name)))
              [] s.type = "field" ->
                    IF node = NoNode THEN Throw(c)
                    ELSE Ret(fieldWalk(node, reverse(split(s.name))), c)
              [] s.type = "wildcard" -> Ret(TRUE, c)
              [] s.type = "child" -> child(checkMatch(c, Append(sel, 2), node))
              [] s.type = "descendant" -> descendant(checkMatch(c, Append(sel, 2), node))
              [] s.type = "compound" -> every(c, sel, 1, Len(s.selectors), node)
              [] s.type = "matches" -> some(c, sel, 1, Len(s.selectors), node)
              [] OTHER -> Throw(c)
    IN  logged("checkMatchWithoutCache", sel, node, switch(selectorAt(sel)))

\* A WeakMap takes no undefined key: set(undefined, v) throws after v was computed.
checkMatch(c, sel, node) ==
    LET store(r) ==
            IF r.threw \/ node = NoNode THEN Throw(r.c)
            ELSE Ret(r.val, [r.c EXCEPT !.m = set(@, sel, set(r.c.m[sel], node, r.val))])
        lookup(c1) ==
            IF node \in DOMAIN c1.m[sel] THEN Ret(c1.m[sel][node], c1)
            ELSE store(checkMatchWithoutCache(c1, sel, node))
    IN  logged("checkMatch", sel, node,
               lookup(IF sel \notin DOMAIN c.m THEN [c EXCEPT !.m = set(@, sel, EmptyWeakMap)]
                      ELSE c))

\* ancestorMatchCache.get(selector) of a selector the cache does not hold is
\* undefined, and reading .has of it throws.
checkMatchWithAnyAncestor(c, sel, node) ==
    LET store(r) ==
            IF r.threw THEN r
            ELSE Ret(r.val, [r.c EXCEPT !.a = set(@, sel, set(r.c.a[sel], node, r.val))])
        orAncestor(r) ==
            IF r.threw \/ r.val THEN r
            ELSE checkMatchWithAnyAncestor(r.c, sel, nodes[node].parent)
        lookup(c1) ==
            IF sel \notin DOMAIN c1.a THEN Throw(c1)
            ELSE IF node \in DOMAIN c1.a[sel] THEN Ret(c1.a[sel][node], c1)
            ELSE store(orAncestor(checkMatch(c1, sel, nodes[node].parent)))
    IN  logged("checkMatchWithAnyAncestor", sel, node,
               IF node = NoNode THEN Ret(FALSE, c)
               ELSE lookup(IF sel \notin DOMAIN c.a
                           THEN [c EXCEPT !.m = set(@, sel, EmptyWeakMap)] ELSE c))

-----------------------------------------------------------------------------
(* NodeEventGenerator: getSelectorsForNode, enterNode, leaveNode *)

RECURSIVE filterExit(_, _)
filterExit(list, isExiting) ==
    IF list = <<>> THEN <<>>
    ELSE (IF endsWithExit(parsedQueryMap[Head(Head(list))].selectorString) = isExiting
          THEN <<Head(list)>> ELSE <<>>) \o filterExit(Tail(list), isExiting)

\* All the candidates of a node, whether they are exit selectors or not.
allSelectorsForNode(node, isExiting) ==
    (IF nodes[node].type \in DOMAIN typeSpecificSelectorMap
     THEN typeSpecificSelectorMap[nodes[node].type] ELSE <<>>) \o generalSelectors

\* The general list before the list of the node's type.
generalSelectorsFirst(node, isExiting) ==
    filterExit(generalSelectors
               \o (IF nodes[node].type \in DOMAIN typeSpecificSelectorMap
                   THEN typeSpecificSelectorMap[nodes[node].type] ELSE <<>>), isExiting)

getSelectorsForNode(node, isExiting) ==
    filterExit((IF nodes[node].type \in DOMAIN typeSpecificSelectorMap
                THEN typeSpecificSelectorMap[nodes[node].type] ELSE <<>>)
               \o generalSelectors, isExiting)

\* The forEach of enterNode and leaveNode from candidate i on; out are the
\* emitter.emit calls made so far.  A throw ends the loop and the call.
RECURSIVE forEachSelector(_, _, _, _, _)
forEachSelector(c, list, i, node, out) ==
    LET emit(r) ==
            IF r.threw THEN [threw |-> TRUE, c |-> r.c, emitted |-> out]
            ELSE forEachSelector(r.c, list, i + 1, node,
                     IF r.val
                     THEN Append(out, [name |-> parsedQueryMap[Head(list[i])].selectorString,
                                       node |-> node])
                     ELSE out)
    IN  IF i > Len(list) THEN [threw |-> FALSE, c |-> c, emitted |-> out]
        ELSE emit(checkMatch(c, list[i], node))

caches == [m |-> matchResultCache, a |-> ancestorMatchCache, log |-> <<>>]

\* What a call leaves behind: the caches, and the record of the call.
visit(op, node, isExiting) ==
    LET done(r) ==
            /\ matchResultCache' = r.c.m
            /\ ancestorMatchCache' = r.c.a
            /\ log' = r.c.log
            /\ emitted' = r.emitted
            /\ call' = [op |-> op, node |-> node, threw |-> r.threw]
    IN  done(forEachSelector(caches, getSelectorsForNode(node, isExiting), 1, node, <<>>))

\* An enterNode that pushes the general selectors onto the list of the node's
\* type instead of concatenating into a new array.
enterNodePushing(node) ==
    /\ visit("enterNode", node, FALSE)
    /\ typeSpecificSelectorMap' =
          IF nodes[node].type \in DOMAIN typeSpecificSelectorMap
          THEN [typeSpecificSelectorMap EXCEPT ![nodes[node].type] = @ \o generalSelectors]
          ELSE typeSpecificSelectorMap
    /\ UNCHANGED <<nodes, parsedQueryMap, generalSelectors, traversal>>

enterNode(node) ==
    /\ visit("enterNode", node, FALSE)
    /\ UNCHANGED <<nodes, parsedQueryMap, typeSpecificSelectorMap, generalSelectors, traversal>>

\* A leaveNode that asks for the selectors of an entering node.
leaveNodeAsEntering(node) ==
    /\ visit("leaveNode", node, FALSE)
    /\ UNCHANGED <<nodes, parsedQueryMap, typeSpecificSelectorMap, generalSelectors, traversal>>

leaveNode(node) ==
    /\ visit("leaveNode", node, TRUE)
    /\ UNCHANGED <<nodes, parsedQueryMap, typeSpecificSelectorMap, generalSelectors, traversal>>

-----------------------------------------------------------------------------
(* The trees and the registrations of the model *)

\* Whether a pattern of the registration holds the lexeme x.
mentions(strings, x) == \E i \in 1..Len(strings) : InSeq(x, strings[i])

\* The type tags of the nodes: the tags the registered patterns name, and "C"
\* for every tag they do not name (the code only compares tags for equality).
Types(strings) == {t \in {"A", "B"} : mentions(strings, t)} \cup {"C"}

\* A data property no registered pattern reads stays absent, and so does the
\* field a node is held in.
FlagValues(strings) == IF mentions(strings, "flag") THEN {Undefined, Bool(TRUE)} ELSE {Undefined}
KeyValues(strings) == IF mentions(strings, ".") THEN {"", "body"} ELSE {""}

\* The parser's value for an unmatched optional only shows in the operator that
\* attrEqOps returns.
UnmatchedValues(strings) == IF mentions(strings, "=") THEN Unmatched ELSE {""}

\* Node 1 is the root; every other node hangs below a node created before it,
\* and a field holds at most one node directly.
validTree(t) ==
    /\ t[1].parent = NoNode /\ t[1].key = ""
    /\ \A n \in NodeIds \ {1} : t[n].parent \in 1..(n - 1)
    /\ \A n1, n2 \in NodeIds :
          (n1 # n2 /\ t[n1].parent = t[n2].parent /\ t[n1].key # "") => t[n1].key # t[n2].key

NodeRecords(strings) ==
    [type : Types(strings), parent : 0..(MaxNodes - 1), key : KeyValues(strings),
     props : [{"flag"} -> FlagValues(strings)]]

Trees(strings) == {t \in [NodeIds -> NodeRecords(strings)] : validTree(t)}

Registrations ==
    { << <<"A">>, <<"A", EXIT>> >>,
      << <<"A">>, <<"B">> >>,
      <<(<<"A", ",", " ", "B">>)>>,
      <<(<<"A", " ", "B">>)>>,
      <<(<<"A", " ", ">", " ", "B">>)>>,
      << <<"A", " ", "B">>, <<"B">> >>,
      << <<"*">>, <<"A">> >>,
      << <<"*", EXIT>>, <<"A", " ", ">", " ", "B", EXIT>> >>,
      <<(<<"A", ",", " ", "[", "flag", "]">>)>>,
      <<(<<"A", ",", " ", "*">>)>>,
      <<(<<"*", "[", "flag", "]">>)>>,
      <<(<<"[", "flag", "]", "[", "flag", "]">>)>>,
      <<(<<"[", "flag", "]">>)>>,
      <<(<<"A", "[", "flag", "]", EXIT>>)>>,
      <<(<<".", "body">>)>> }

\* The state a constructor call leaves, before any node is visited.
constructed(strings, u) ==
    \E pqm \in {buildParsedQueryMap(strings, u)} :
        \E p \in {partition(pqm, 1, EmptyMap, <<>>)} :
            /\ \A i \in 1..Len(pqm) : pqm[i].selector.type # "undefined"
            /\ parsedQueryMap = pqm
            /\ typeSpecificSelectorMap = p.typeSpecificSelectorMap
            /\ generalSelectors = p.generalSelectors

initWith(registrations) ==
    /\ \E strings \in registrations :
          /\ \E u \in UnmatchedValues(strings) : constructed(strings, u)
          /\ nodes \in Trees(strings)
    /\ matchResultCache = EmptyCache
    /\ ancestorMatchCache = EmptyCache
    /\ call = [op |-> "none", node |-> NoNode, threw |-> FALSE]
    /\ emitted = <<>>
    /\ log = <<>>
    /\ traversal = 1

Init == initWith(Registrations)

Next ==
    \/ \E node \in NodeIds : enterNode(node)
    \/ \E node \in NodeIds : leaveNode(node)

Spec == Init /\ [][Next]_vars

-----------------------------------------------------------------------------
(* A second walk by the same generator.  The module-level caches are never  *)
(* cleared, and a node object that is still alive keeps its entries.  The   *)
(* host may have changed one node (its type, a property, the field that     *)
(* holds it or its parent) before it walks the tree again.                  *)

registered == [i \in 1..Len(parsedQueryMap) |-> parsedQueryMap[i].selectorString]

newTraversal(node, record) ==
    /\ traversal < MaxTraversals
    /\ record # nodes[node]
    /\ validTree([nodes EXCEPT ![node] = record])
    /\ nodes' = [nodes EXCEPT ![node] = record]
    /\ traversal' = traversal + 1
    /\ call' = [op |-> "newTraversal", node |-> node, threw |-> FALSE]
    /\ emitted' = <<>>
    /\ log' = <<>>
    /\ UNCHANGED <<parsedQueryMap, typeSpecificSelectorMap, generalSelectors,
                   matchResultCache, ancestorMatchCache>>

RetraverseRegistrations ==
    { <<(<<"A", " ", ">", " ", "B">>)>>,
      <<(<<"[", "flag", "]">>)>>,
      << <<"A">>, <<"A", EXIT>> >> }

InitRetraverse == initWith(RetraverseRegistrations)

NextRetraverse ==
    \/ \E node \in NodeIds : enterNode(node)
    \/ \E node \in NodeIds : leaveNode(node)
    \/ \E node \in NodeIds : \E record \in NodeRecords(registered) : newTraversal(node, record)

SpecRetraverse == InitRetraverse /\ [][NextRetraverse]_vars

-----------------------------------------------------------------------------
(* Attribute selectors.  An attribute selector reads properties of the node *)
(* itself, so the nodes form one chain and differ in their type tag and in  *)
(* the properties the registered patterns name.                             *)

\* The values of property name: none where no pattern reads it, the numbers a
\* pattern compares count with, and for flag the values a truthiness test or a
\* comparison with the word x or the number 1 tells apart.
AttributeValues(strings, name) ==
    IF ~mentions(strings, name) THEN {Undefined}
    ELSE IF name = "count" THEN {Undefined, Num(0), Num(1), Num(2)}
    ELSE IF mentions(strings, "=") THEN {Undefined, Str("x"), Num(1)}
    ELSE {Undefined, Bool(FALSE), Bool(TRUE)}

AttributeRecords(strings) ==
    [type : Types(strings), parent : 0..(MaxNodes - 1), key : {""},
     props : {[flag |-> f, count |-> k] : f \in AttributeValues(strings, "flag"),
                                          k \in AttributeValues(strings, "count")}]

AttributeTrees(strings) ==
    {t \in [NodeIds -> AttributeRecords(strings)] : \A n \in NodeIds : t[n].parent = n - 1}

\* "[flag = v]" and "[flag != v]" for a value v
equals(v) == <<"[", "flag", " ", "=", " ">> \o v \o <<"]">>
notEquals(v) == <<"[", "flag", " ", "!", "=", " ">> \o v \o <<"]">>

\* A string, a number, a bare word, a type and a regular expression.
AttributeOperands ==
    { <<"'", "x", "'">>, <<"1">>, <<"x">>, <<"type", "(", "x", ")">>, <<"/", "x", "/">> }

AttributeRegistrations ==
    { <<(<<"[", "count", " ", ">", " ", "1", "]">>)>>,
      <<(<<"A", "[", "flag", "]">>)>>,
      <<(<<"[", "flag", "]", "A">>)>> }
    \cup {<<equals(v), notEquals(v)>> : v \in AttributeOperands}

InitAttributes ==
    /\ \E strings \in AttributeRegistrations :
          /\ \E u \in UnmatchedValues(strings) : constructed(strings, u)
          /\ nodes \in AttributeTrees(strings)
    /\ matchResultCache = EmptyCache
    /\ ancestorMatchCache = EmptyCache
    /\ call = [op |-> "none", node |-> NoNode, threw |-> FALSE]
    /\ emitted = <<>>
    /\ log = <<>>
    /\ traversal = 1

SpecAttributes == InitAttributes /\ [][Next]_vars

-----------------------------------------------------------------------------
(* Field paths, several patterns for one node, and unions and compounds     *)
(* that name a type more than once.                                         *)

\* The fields that hold a node: those the registered patterns name.
PatternKeys(strings) == {""} \cup {k \in {"body", "test"} : mentions(strings, k)}

PatternRecords(strings) ==
    [type : Types(strings), parent : 0..(MaxNodes - 1), key : PatternKeys(strings),
     props : [{"flag"} -> FlagValues(strings)]]

\* Where no registered pattern reads a parent link the nodes form one chain.
PatternTrees(strings) ==
    {t \in [NodeIds -> PatternRecords(strings)] :
        /\ validTree(t)
        /\ (mentions(strings, ">") \/ mentions(strings, ".")) \/ \A n \in NodeIds : t[n].parent = n - 1}

PatternRegistrations ==
    { <<(<<".", "body">>)>>,
      <<(<<".", "test", ".", "body">>)>>,
      << <<"*">>, <<"A", "[", "flag", "]">>, <<"[", "flag", "]">>, <<"A">> >>,
      << <<"[", "flag", "]", EXIT>>, <<"A", EXIT>>, <<"*", EXIT>>, <<"A", "[", "flag", "]", EXIT>> >>,
      <<(<<"A", ",", " ", "A">>)>>,
      <<(<<"A", ",", " ", "B", ",", " ", "A">>)>>,
      <<(<<"A", ",", " ", "A", " ", ">", " ", "A">>)>>,
      <<(<<"A", "#", "A">>)>> }

InitPatterns ==
    /\ \E strings \in PatternRegistrations :
          /\ \E u \in UnmatchedValues(strings) : constructed(strings, u)
          /\ nodes \in PatternTrees(strings)
    /\ matchResultCache = EmptyCache
    /\ ancestorMatchCache = EmptyCache
    /\ call = [op |-> "none", node |-> NoNode, threw |-> FALSE]
    /\ emitted = <<>>
    /\ log = <<>>
    /\ traversal = 1

SpecPatterns == InitPatterns /\ [][Next]_vars

-----------------------------------------------------------------------------
(* One depth-first walk of a chain of nodes by the host: enterNode on the   *)
(* way down, leaveNode on the way up.  An exception of a call ends the walk. *)

WalkTypes == {"Program", "FunctionDeclaration", "BlockStatement", "ReturnStatement"}

WalkRegistration ==
    << <<"FunctionDeclaration">>,
       <<"ReturnStatement", EXIT>>,
       <<"BlockStatement", " ", ">", " ", "ReturnStatement">> >>

\* The chains of up to MaxDepth nodes: node n + 1 is the only child of node n.
WalkTrees ==
    UNION {{t \in [1..len -> [type : WalkTypes, parent : 0..(len - 1), key : {""},
                             props : [{"flag"} -> {Undefined}]]] :
               \A n \in 1..len : t[n].parent = n - 1} : len \in 1..MaxDepth}

InitWalk ==
    /\ constructed(WalkRegistration, "")
    /\ nodes \in WalkTrees
    /\ matchResultCache = EmptyCache
    /\ ancestorMatchCache = EmptyCache
    /\ call = [op |-> "none", node |-> NoNode, threw |-> FALSE]
    /\ emitted = <<>>
    /\ log = <<>>
    /\ traversal = 1

\* The walk enters the root first, and the child of a node it has entered.
walkDown(node) ==
    /\ node \in DOMAIN nodes
    /\ ~call.threw
    /\ \/ call.op = "none" /\ node = 1
       \/ call.op = "enterNode" /\ node = call.node + 1
    /\ enterNode(node)

\* The walk leaves a node it has entered that has no child, and the parent of
\* a node it has left.
walkUp(node) ==
    /\ node \in DOMAIN nodes
    /\ ~call.threw
    /\ \/ call.op = "enterNode" /\ node = call.node /\ node = Len(nodes)
       \/ call.op = "leaveNode" /\ node = call.node - 1
    /\ leaveNode(node)

NextWalk ==
    \/ \E node \in 1..MaxDepth : walkDown(node)
    \/ \E node \in 1..MaxDepth : walkUp(node)

\* The walk has a call left to make: the states in which NextWalk is enabled.
walkPending == ~call.threw /\ ~(call.op = "leaveNode" /\ call.node = 1)

\* A step of the walk, told by the record of the call it leaves: every step
\* of NextWalk changes call.
walkStep ==
    /\ walkPending
    /\ call' \in [op : {"enterNode", "leaveNode"}, node : 1..MaxDepth, threw : BOOLEAN]

\* The host makes the next call of the walk as long as there is one.
SpecWalk == InitWalk /\ [][NextWalk]_vars /\ WF_call(walkStep)

-----------------------------------------------------------------------------
(* Properties *)

visiting == call.op \in {"enterNode", "leaveNode"}

\* The strict ancestors of node n, by its parent links.
RECURSIVE ancestors(_)
ancestors(n) ==
    IF nodes[n].parent = NoNode THEN {}
    ELSE {nodes[n].parent} \cup ancestors(nodes[n].parent)

emittedNames == {emitted[k].name : k \in 1..Len(emitted)}

\* How many events of the last call carry the name str.
count(str) == Cardinality({k \in 1..Len(emitted) : emitted[k].name = str})

isRegistered(str) == \E i \in 1..Len(registered) : registered[i] = str

fresh == [m |-> EmptyCache, a |-> EmptyCache, log |-> <<>>]

\* The selector at position sel evaluated on node with empty caches.
matchesDirectly(sel, node) ==
    LET yes(r) == ~r.threw /\ r.val IN yes(checkMatch(fresh, sel, node))

DescendantAB == <<"A", " ", "B">>
ChildAB == <<"A", " ", ">", " ", "B">>
UnionAB == <<"A", ",", " ", "B">>

\* C1: with the pattern "A B" registered, enterNode(N) returns and emits the
\* pattern iff N has type B and some strict ancestor of N has type A.
C1_DescendantMatchesIffAncestor ==
    (registered = <<DescendantAB>> /\ call.op = "enterNode") =>
        /\ ~call.threw
        /\ (emitted # <<>>) <=>
              (nodes[call.node].type = "B" /\ \E a \in ancestors(call.node) : nodes[a].type = "A")

\* C2: with the pattern "A > B" registered, enterNode(N) returns and emits the
\* pattern iff N has a parent of type A and N has type B; on the root it
\* returns without emitting.
C2_ChildMatchesIffParent ==
    (registered = <<ChildAB>> /\ call.op = "enterNode") =>
        /\ ~call.threw
        /\ (emitted # <<>>) <=>
              (/\ nodes[call.node].parent # NoNode
               /\ nodes[call.node].type = "B"
               /\ nodes[nodes[call.node].parent].type = "A")

\* C3: a call that returns has emitted exactly the registered patterns of its
\* kind (exit patterns on leaveNode, the others on enterNode) whose selector
\* matches the node when it is evaluated directly, whatever its type hint.
C3_HintNeverChangesEvents ==
    (visiting /\ ~call.threw) =>
        \A i \in 1..Len(parsedQueryMap) :
            (registered[i] \in emittedNames) <=>
                (/\ endsWithExit(registered[i]) = (call.op = "leaveNode")
                 /\ matchesDirectly(<<i>>, call.node))

\* A selector for which no set of node types can be computed: a wildcard, an
\* attribute, a field, and a compound or a union none of whose members has one.
RECURSIVE hasNoTypes(_)
hasNoTypes(sel) ==
    CASE sel.type \in {"wildcard", "attribute", "field"} -> TRUE
      [] sel.type \in {"child", "descendant"} -> hasNoTypes(sel.right)
      [] sel.type \in {"compound", "matches"} ->
            \A k \in 1..Len(sel.selectors) : hasNoTypes(sel.selectors[k])
      [] OTHER -> FALSE

\* C4: every registered selector for which no set of node types can be
\* computed is in the general list.
C4_UnhintedInGeneralList ==
    \A i \in 1..Len(parsedQueryMap) :
        hasNoTypes(parsedQueryMap[i].selector) => InSeq(<<i>>, generalSelectors)

listedUnder(i) ==
    {t \in DOMAIN typeSpecificSelectorMap : InSeq(<<i>>, typeSpecificSelectorMap[t])}

\* A selector has a hint when its types can be told from its structure: an
\* identifier has, the right side of a combinator decides, a compound has when
\* some member has, a union when every member has.
RECURSIVE hinted(_)
hinted(sel) ==
    CASE sel.type = "identifier" -> TRUE
      [] sel.type \in {"child", "descendant"} -> hinted(sel.right)
      [] sel.type = "compound" -> \E k \in 1..Len(sel.selectors) : hinted(sel.selectors[k])
      [] sel.type = "matches" -> \A k \in 1..Len(sel.selectors) : hinted(sel.selectors[k])
      [] OTHER -> FALSE

\* The types a selector with a hint is restricted to.
RECURSIVE typesOf(_)
typesOf(sel) ==
    CASE sel.type = "identifier" -> {sel.value}
      [] sel.type \in {"child", "descendant"} -> typesOf(sel.right)
      [] sel.type = "matches" -> UNION {typesOf(sel.selectors[k]) : k \in 1..Len(sel.selectors)}
      [] sel.type = "compound" ->
            {t \in UNION {typesOf(sel.selectors[k]) : k \in 1..Len(sel.selectors)} :
                \A k \in 1..Len(sel.selectors) :
                    hinted(sel.selectors[k]) => t \in typesOf(sel.selectors[k])}
      [] OTHER -> {}

\* C5: a registered union whose members all have a hint is listed under the
\* union of their types; a union with a member without a hint is in the
\* general list.
C5_UnionHint ==
    \A i \in 1..Len(parsedQueryMap) :
        parsedQueryMap[i].selector.type = "matches" =>
            IF ~hinted(parsedQueryMap[i].selector)
            THEN InSeq(<<i>>, generalSelectors)
            ELSE /\ ~InSeq(<<i>>, generalSelectors)
                 /\ listedUnder(i) = typesOf(parsedQueryMap[i].selector)

\* C6: with "T" registered, enterNode(N) emits "T" once when N has type T and
\* never otherwise, and leaveNode(N) never emits it; with "T:exit" registered
\* it is the other way round.
C6_TypePatternFiresOnce ==
    \A T \in {"A", "B"} :
        /\ (isRegistered(<<T>>) /\ visiting) =>
              count(<<T>>) = IF call.op = "enterNode" /\ nodes[call.node].type = T THEN 1 ELSE 0
        /\ (isRegistered(<<T, EXIT>>) /\ visiting) =>
              count(<<T, EXIT>>) = IF call.op = "leaveNode" /\ nodes[call.node].type = T THEN 1 ELSE 0

\* C7: every emitted event is named by a registration string as registered and
\* carries the node of the call; enterNode emits no name that ends in ":exit"
\* and leaveNode only names that do.
C7_EventsNamedAsRegistered ==
    \A k \in 1..Len(emitted) :
        /\ isRegistered(emitted[k].name)
        /\ emitted[k].node = call.node
        /\ endsWithExit(emitted[k].name) = (call.op = "leaveNode")

C7_Witness ==
    /\ call.op = "leaveNode"
    /\ isRegistered(<<"A">>)
    /\ emitted = <<[name |-> <<"A", EXIT>>, node |-> call.node]>>

\* C8: the single pattern "A, B" and the two patterns "A" and "B" fire on
\* enterNode for the same nodes, those of type A or B, the one under its own
\* name and the others under theirs.
C8_UnionEquivalence ==
    (call.op = "enterNode" /\ registered \in {<<UnionAB>>, << <<"A">>, <<"B">> >>}) =>
        /\ ~call.threw
        /\ (emitted # <<>>) <=> (nodes[call.node].type \in {"A", "B"})
        /\ \A k \in 1..Len(emitted) :
              emitted[k].name = IF registered = <<UnionAB>> THEN UnionAB
                                ELSE <<nodes[call.node].type>>

C8_Witness ==
    /\ call.op = "enterNode"
    /\ registered = <<UnionAB>>
    /\ nodes[call.node].type = "B"
    /\ emitted = <<[name |-> UnionAB, node |-> call.node]>>

resultOf(r) == IF r.threw THEN "throw" ELSE IF r.val THEN "true" ELSE "false"

\* C9: every cached check of the last call on a node returned the boolean that
\* an evaluation with empty caches gives: checkMatch that of the selector on
\* the node, checkMatchWithAnyAncestor whether the selector matches some
\* strict ancestor of the node.
C9_MemoizationTransparent ==
    \A k \in 1..Len(log) :
        /\ (log[k].fn = "checkMatch" /\ log[k].node # NoNode) =>
              log[k].result = resultOf(checkMatch(fresh, log[k].sel, log[k].node))
        /\ (log[k].fn = "checkMatchWithAnyAncestor" /\ log[k].node # NoNode) =>
              log[k].result = IF \E a \in ancestors(log[k].node) : matchesDirectly(log[k].sel, a)
                              THEN "true" ELSE "false"

\* What the call of the state emits on the current tree with empty caches.
uncached == forEachSelector(fresh, getSelectorsForNode(call.node, call.op = "leaveNode"),
                            1, call.node, <<>>)

\* C10: a call of a later walk ends as a call on the current tree with empty
\* caches ends, and emits what that call emits.
C10_SecondWalkUsesNoStaleEntry ==
    (visiting /\ traversal > 1) =>
        (call.threw = uncached.threw /\ emitted = uncached.emitted)

CountAbove1 == <<"[", "count", " ", ">", " ", "1", "]">>

\* C12: with "[count > 1]" registered, enterNode(N) returns, and emits the
\* pattern iff the count of N is a number greater than 1; a node without count
\* is no match and no error.
C12_CountGreaterThanOne ==
    (registered = <<CountAbove1>> /\ call.op = "enterNode") =>
        /\ ~call.threw
        /\ (emitted # <<>>) <=>
              (nodes[call.node].props.count.t = "number" /\ nodes[call.node].props.count.n > 1)

C12_Witness ==
    /\ registered = <<CountAbove1>>
    /\ call.op = "enterNode"
    /\ nodes[call.node].props.count = Num(2)
    /\ emitted = <<[name |-> CountAbove1, node |-> call.node]>>
    /\ \E n \in NodeIds : nodes[n].props.count = Undefined /\ n \in DOMAIN matchResultCache[<<1>>]

\* C13: with "A[flag]" registered, and with its members in the other order,
\* enterNode(N) returns and emits the pattern iff N has type A and a truthy flag.
C13_CompoundIsAndOfMembers ==
    (call.op = "enterNode"
        /\ registered \in {<<(<<"A", "[", "flag", "]">>)>>, <<(<<"[", "flag", "]", "A">>)>>}) =>
        /\ ~call.threw
        /\ (emitted # <<>>) <=>
              (nodes[call.node].type = "A" /\ truthy(nodes[call.node].props.flag))

C13_Witness ==
    /\ call.op = "enterNode"
    /\ registered = <<(<<"[", "flag", "]", "A">>)>>
    /\ nodes[call.node].type = "A"
    /\ emitted # <<>>

\* The variants and the operators the matcher knows.
isKnown(s) ==
    /\ s.type \in {"identifier", "attribute", "field", "wildcard", "child", "descendant",
                   "compound", "matches"}
    /\ s.type = "attribute" => s.operator \in {"", "=", "!=", "<", "<=", ">", ">="}

\* C14: an evaluation of a selector of an unknown variant, or of an attribute
\* selector with an unknown operator, ends in an error whatever its value is.
C14_UnknownOperatorThrows ==
    \A k \in 1..Len(log) :
        (log[k].fn = "checkMatchWithoutCache" /\ ~isKnown(selectorAt(log[k].sel))) =>
            log[k].result = "throw"

\* str with "!" put before its "=".
RECURSIVE negated(_)
negated(str) ==
    IF str = <<>> THEN <<>>
    ELSE IF Head(str) = "=" THEN <<"!">> \o str
    ELSE <<Head(str)>> \o negated(Tail(str))

\* C20: with "[p = v]" and "[p != v]" registered, enterNode(N) returns and emits
\* exactly one of the two.
C20_NotEqualsNegatesEquals ==
    (call.op = "enterNode" /\ Len(registered) = 2 /\ registered[2] = negated(registered[1])) =>
        /\ ~call.threw
        /\ (registered[2] \in emittedNames) <=> (registered[1] \notin emittedNames)

\* The words of a field pattern, f1 to fk.
fieldsOf(str) == SelectSeq(str, LAMBDA x : x # ".")

\* Node n is held in the last field of its parent, the parent in the field
\* before it of its own parent, and so on through the first field.
RECURSIVE heldAlong(_, _)
heldAlong(n, fields) ==
    IF fields = <<>> THEN TRUE
    ELSE /\ nodes[n].parent # NoNode
         /\ nodes[n].key = fields[Len(fields)]
         /\ heldAlong(nodes[n].parent, SubSeq(fields, 1, Len(fields) - 1))

\* C15: with one field pattern registered, enterNode(N) returns, and emits the
\* pattern iff N and its ancestors are held in the fields of the path, last
\* field first; where the ancestors end before the path does it emits nothing.
C15_FieldPathWalksUp ==
    (call.op = "enterNode" /\ Len(parsedQueryMap) = 1
        /\ parsedQueryMap[1].selector.type = "field") =>
        /\ ~call.threw
        /\ (emitted # <<>>) <=> heldAlong(call.node, fieldsOf(registered[1]))

C15_Witness ==
    /\ call.op = "enterNode"
    /\ registered = <<(<<".", "test", ".", "body">>)>>
    /\ emitted # <<>>
    /\ 1 \in DOMAIN matchResultCache[<<1>>]
    /\ ~matchResultCache[<<1>>][1]

\* The place of an emitted name among the registered patterns.
registeredAt(name) == CHOOSE i \in 1..Len(registered) : registered[i] = name

\* C18: in one call the events of the patterns that have a type hint come
\* before those of the patterns that have none, and the events of each group
\* come in the order of registration.
C18_HintedBeforeGeneral ==
    \A k, l \in 1..Len(emitted) :
        k < l =>
            LET i == registeredAt(emitted[k].name)
                j == registeredAt(emitted[l].name)
            IN  \/ hinted(parsedQueryMap[i].selector) /\ ~hinted(parsedQueryMap[j].selector)
                \/ /\ hinted(parsedQueryMap[i].selector) = hinted(parsedQueryMap[j].selector)
                   /\ i < j

C18_Witness ==
    /\ call.op = "enterNode"
    /\ registered = << <<"*">>, <<"A", "[", "flag", "]">>, <<"[", "flag", "]">>, <<"A">> >>
    /\ emitted = <<[name |-> <<"A", "[", "flag", "]">>, node |-> call.node],
                   [name |-> <<"A">>, node |-> call.node],
                   [name |-> <<"*">>, node |-> call.node],
                   [name |-> <<"[", "flag", "]">>, node |-> call.node]>>

occurrences(x, q) == Cardinality({k \in 1..Len(q) : q[k] = x})

\* C19: a call emits each registered pattern at most once; a selector is at
\* most once in the list of a type and in the general list, and never in both.
C19_NoDuplicateDispatch ==
    \A i \in 1..Len(parsedQueryMap) :
        /\ count(registered[i]) <= 1
        /\ \A t \in DOMAIN typeSpecificSelectorMap :
              occurrences(<<i>>, typeSpecificSelectorMap[t]) <= 1
        /\ occurrences(<<i>>, generalSelectors) <= 1
        /\ ~(InSeq(<<i>>, generalSelectors) /\ listedUnder(i) # {})

C19_Witness ==
    /\ call.op = "enterNode"
    /\ registered = <<(<<"A", ",", " ", "A">>)>>
    /\ nodes[call.node].type = "A"
    /\ Len(emitted) = 1

\* The positions of a log that hold an uncached evaluation on a node.
evaluations(q) == {k \in 1..Len(q) : q[k].fn = "checkMatchWithoutCache" /\ q[k].node # NoNode}

\* Whether every entry of a cache is an entry of the other, with its value.
keeps(before, after) ==
    \A sel \in DOMAIN before :
        /\ sel \in DOMAIN after
        /\ \A n \in DOMAIN before[sel] : n \in DOMAIN after[sel] /\ after[sel][n] = before[sel][n]

\* C16: a (selector, node) pair is evaluated without the cache once: a call
\* evaluates no pair twice, the result of every evaluation it ran is in
\* matchResultCache when it ends, so that no later call path evaluates the pair
\* again, and no call removes or changes an entry of either cache.
C16_ComputeOnce ==
    [][/\ \A j, k \in evaluations(log') :
             (log'[j].sel = log'[k].sel /\ log'[j].node = log'[k].node) => j = k
       /\ \A k \in evaluations(log') :
             /\ log'[k].sel \in DOMAIN matchResultCache'
             /\ log'[k].node \in DOMAIN matchResultCache'[log'[k].sel]
       /\ traversal' = traversal =>
             (keeps(matchResultCache, matchResultCache')
              /\ keeps(ancestorMatchCache, ancestorMatchCache'))]_vars

\* C17: no enterNode or leaveNode call changes parsedQueryMap,
\* typeSpecificSelectorMap or generalSelectors: they stay as the constructor
\* left them.
C17_TablesFixedAfterConstruction ==
    [][UNCHANGED <<parsedQueryMap, typeSpecificSelectorMap, generalSelectors>>]_vars

\* A matching call with "*" and "A" registered: both lists were read, and are
\* as the constructor filled them.
C17_Witness ==
    /\ call.op = "enterNode" /\ ~call.threw
    /\ registered = << <<"*">>, <<"A">> >>
    /\ Len(emitted) = 2
    /\ generalSelectors = <<(<<1>>)>>
    /\ typeSpecificSelectorMap = [t \in {"A"} |-> <<(<<2>>)>>]

\* The tree Program -> FunctionDeclaration -> BlockStatement -> ReturnStatement.
isScenarioTree ==
    /\ Len(nodes) = 4
    /\ nodes[1].type = "Program" /\ nodes[2].type = "FunctionDeclaration"
    /\ nodes[3].type = "BlockStatement" /\ nodes[4].type = "ReturnStatement"

\* The events of the scenario, by the call that emits them.
scenarioEvents(op, node) ==
    CASE op = "enterNode" /\ node = 2 ->
            <<[name |-> <<"FunctionDeclaration">>, node |-> 2]>>
      [] op = "enterNode" /\ node = 4 ->
            <<[name |-> <<"BlockStatement", " ", ">", " ", "ReturnStatement">>, node |-> 4]>>
      [] op = "leaveNode" /\ node = 4 ->
            <<[name |-> <<"ReturnStatement", EXIT>>, node |-> 4]>>
      [] OTHER -> <<>>

\* C11: on the tree Program -> FunctionDeclaration -> BlockStatement ->
\* ReturnStatement with "FunctionDeclaration", "ReturnStatement:exit" and
\* "BlockStatement > ReturnStatement" registered, no call of the walk throws,
\* enterNode(FunctionDeclaration) emits "FunctionDeclaration",
\* enterNode(ReturnStatement) emits "BlockStatement > ReturnStatement",
\* leaveNode(ReturnStatement) emits "ReturnStatement:exit", every other call
\* emits nothing, and the walk reaches leaveNode(Program).
C11_ScenarioEmissions ==
    /\ [](isScenarioTree /\ visiting =>
            ~call.threw /\ emitted = scenarioEvents(call.op, call.node))
    /\ (isScenarioTree ~> (call.op = "leaveNode" /\ call.node = 1 /\ ~call.threw))

\* The walk of the scenario has left the ReturnStatement and emitted its exit event.
C11_Witness ==
    /\ isScenarioTree
    /\ registered = WalkRegistration
    /\ call = [op |-> "leaveNode", node |-> 4, threw |-> FALSE]
    /\ emitted = <<[name |-> <<"ReturnStatement", EXIT>>, node |-> 4]>>

====
